---- MODULE Spec2Model ----
(***************************************************************************)
(* A model of schema-types (src/src/index.ts): the schema builders of      *)
(* class T, the optional/readonly modifiers, the introspection predicates  *)
(* and the recursive validation engine validateWithPath with its public    *)
(* entry points validate, validateOrThrow, is and formatIssues.            *)
(*                                                                         *)
(* JavaScript values (schemas and validated values alike) are tagged       *)
(* records: k is the kind of the value.  An object keeps its own           *)
(* enumerable string keys in insertion order (keys, vals) and the set of   *)
(* its non-enumerable symbol properties whose value is true (sym).  A call *)
(* either returns or throws: an outcome records which.                     *)
(***************************************************************************)
EXTENDS Integers, Sequences, FiniteSets, TLC

VARIABLES
  schema,   \* the schema value the caller holds
  builder,  \* the builder that made it ("none" before any, "literal" for a
            \* value written by hand)
  applied,  \* the modifiers it was passed through since it was built
  value,    \* the value of the last validation call
  result,   \* the outcome of the last validation call
  op        \* the last operation

vars == <<schema, builder, applied, value, result, op>>

(***************************************************************************)
(* JavaScript values                                                       *)
(***************************************************************************)
Undefined == [k |-> "undefined"]
Null == [k |-> "null"]
Bool(b) == [k |-> "boolean", b |-> b]
Num(n) == [k |-> "number", n |-> n]
NaN == [k |-> "number", nan |-> TRUE]
BigInt(n) == [k |-> "bigint", n |-> n]
Str(s) == [k |-> "string", s |-> s]
Arr(items) == [k |-> "array", items |-> items]
Obj(keys, vals) == [k |-> "object", keys |-> keys, vals |-> vals, sym |-> {}]

IsNaN(v) == v.k = "number" /\ "nan" \in DOMAIN v

\* typeof v
TypeOf(v) ==
  IF v.k \in {"null", "array", "object"} THEN "object" ELSE v.k

\* Array.isArray(v)
IsArray(v) == v.k = "array"

\* key in v, for an object or an array v
HasKey(v, key) ==
  CASE v.k = "object" -> \E i \in 1..Len(v.keys) : v.keys[i] = key
    [] v.k = "array" -> \E i \in 1..Len(v.items) : ToString(i - 1) = key
    [] OTHER -> FALSE

\* v[key] with a string key: undefined when v has no such own property.  The
\* code reads properties only of values that are neither undefined nor null.
Get(v, key) ==
  CASE v.k = "object" /\ HasKey(v, key) ->
         v.vals[CHOOSE i \in 1..Len(v.keys) : v.keys[i] = key]
    [] v.k = "array" /\ HasKey(v, key) ->
         v.items[CHOOSE i \in 1..Len(v.items) : ToString(i - 1) = key]
    [] OTHER -> Undefined

\* v[symbol] === true for the symbols OPTIONAL and READONLY
HasSym(v, symbol) == v.k = "object" /\ symbol \in v.sym

\* {...item}: the own enumerable properties of item, so none of the
\* non-enumerable symbol properties; undefined, null, numbers and booleans
\* spread to {}
Spread(item) ==
  CASE item.k = "object" -> Obj(item.keys, item.vals)
    [] item.k = "array" ->
         Obj([i \in 1..Len(item.items) |-> ToString(i - 1)], item.items)
    [] OTHER -> Obj(<<>>, <<>>)

\* Object.defineProperty(o, symbol, {value: true, enumerable: false})
DefineSym(o, symbol) == [o EXCEPT !.sym = @ \cup {symbol}]

\* {...o, key: v} for a key that is appended or overwritten in place
WithKey(o, key, v) ==
  IF HasKey(o, key)
  THEN [o EXCEPT !.vals[CHOOSE i \in 1..Len(o.keys) : o.keys[i] = key] = v]
  ELSE [o EXCEPT !.keys = Append(@, key), !.vals = Append(@, v)]

(***************************************************************************)
(* Outcomes of a call                                                      *)
(***************************************************************************)
Return(issues) == [kind |-> "return", issues |-> issues]
Throw(error, message) == [kind |-> "throw", error |-> error, message |-> message]
NoResult == [kind |-> "none"]

RECURSIVE Join(_, _)
\* strings.join(sep)
Join(strings, sep) ==
  IF Len(strings) = 0 THEN ""
  ELSE IF Len(strings) = 1 THEN strings[1]
  ELSE strings[1] \o sep \o Join(Tail(strings), sep)

RECURSIVE Flatten(_)
\* the concatenation of a sequence of sequences
Flatten(seqs) ==
  IF Len(seqs) = 0 THEN <<>> ELSE Head(seqs) \o Flatten(Tail(seqs))

\* a flatMap that stops at the first callback with issues
FlatMapShortCircuit(outcomes) ==
  IF \E i \in 1..Len(outcomes) : outcomes[i] # Return(<<>>)
  THEN outcomes[CHOOSE i \in 1..Len(outcomes) :
         /\ outcomes[i] # Return(<<>>)
         /\ \A j \in 1..(i - 1) : outcomes[j] = Return(<<>>)]
  ELSE Return(<<>>)

\* array.flatMap(callback) where the callback's outcomes are given in index
\* order: the first callback that throws ends the call with its error
FlatMap(outcomes) ==
  IF \E i \in 1..Len(outcomes) : outcomes[i].kind = "throw"
  THEN outcomes[CHOOSE i \in 1..Len(outcomes) :
         /\ outcomes[i].kind = "throw"
         /\ \A j \in 1..(i - 1) : outcomes[j].kind # "throw"]
  ELSE Return(Flatten([i \in 1..Len(outcomes) |-> outcomes[i].issues]))

(***************************************************************************)
(* Utilities                                                               *)
(***************************************************************************)
\* keysOf(value): Object.keys(value), which throws for undefined and null
keysOf(v) ==
  CASE v.k \in {"undefined", "null"} ->
         Throw("TypeError", "Cannot convert undefined or null to object")
    [] v.k = "object" -> [kind |-> "return", keys |-> v.keys]
    [] v.k = "array" ->
         [kind |-> "return", keys |-> [i \in 1..Len(v.items) |-> ToString(i - 1)]]
    [] OTHER -> [kind |-> "return", keys |-> <<>>]

\* seq.filter(Test), for a set Keep of the elements that pass the test
RECURSIVE Filter(_, _)
Filter(seq, Keep) ==
  IF Len(seq) = 0 THEN <<>>
  ELSE IF Head(seq) \in Keep THEN <<Head(seq)>> \o Filter(Tail(seq), Keep)
  ELSE Filter(Tail(seq), Keep)

Range(seq) == {seq[i] : i \in 1..Len(seq)}

(***************************************************************************)
(* Schema builders (class T)                                               *)
(***************************************************************************)
T_any == Obj(<<>>, <<>>)
T_boolean == Obj(<<"type">>, <<Str("boolean")>>)
T_null == Obj(<<"type">>, <<Str("null")>>)
T_number(options) == WithKey(Spread(options), "type", Str("number"))
T_string(options) == WithKey(Spread(options), "type", Str("string"))
T_undefined == Obj(<<"type">>, <<Str("undefined")>>)
T_array(items) == Obj(<<"type", "items">>, <<Str("array"), items>>)
T_record(items) == Obj(<<"type", "additionalProperties">>, <<Str("object"), items>>)

\* every key of properties, optional or not
RequiredOfEveryKey(properties) == properties.keys

\* the keys of properties whose schema does not carry the OPTIONAL marker
RequiredOf(properties) ==
  Filter(properties.keys,
         {key \in Range(properties.keys) : ~HasSym(Get(properties, key), "OPTIONAL")})

T_object(properties) ==
  LET required == RequiredOf(properties)
  IN IF Len(required) > 0
     THEN Obj(<<"type", "properties", "required">>,
              <<Str("object"), properties,
                Arr([i \in 1..Len(required) |-> Str(required[i])])>>)
     ELSE Obj(<<"type", "properties">>, <<Str("object"), properties>>)

\* tuple(...items): items is the sequence of the arguments
T_tuple(items) == Obj(<<"type", "items">>, <<Str("array"), Arr(items)>>)

T_optional(item) == DefineSym(Spread(item), "OPTIONAL")
T_readonly(item) == DefineSym(Spread(item), "READONLY")

(***************************************************************************)
(* Introspection predicates                                                *)
(***************************************************************************)
\* a schema check that also wants the tag to be a known variant name
isSchemaTypeKnownTag(v) ==
  IF TypeOf(v) # "object" \/ v.k \in {"null", "undefined"} THEN FALSE
  ELSE IF ~HasKey(v, "type") THEN FALSE
  ELSE Get(v, "type") \in
         {Str(tag) : tag \in {"boolean", "null", "number", "string", "undefined",
                              "array", "object"}}

isSchemaType(v) ==
  IF TypeOf(v) # "object" \/ v.k \in {"null", "undefined"} THEN FALSE
  ELSE IF ~HasKey(v, "type") THEN FALSE
  ELSE TypeOf(Get(v, "type")) = "string"

isBooleanType(v) == Get(v, "type") = Str("boolean")
isNullType(v) == Get(v, "type") = Str("null")
isNumberType(v) == Get(v, "type") = Str("number")
isStringType(v) == Get(v, "type") = Str("string")
isUndefinedType(v) == Get(v, "type") = Str("undefined")
isArrayType(v) == Get(v, "type") = Str("array") /\ ~IsArray(Get(v, "items"))
isRecordType(v) ==
  Get(v, "type") = Str("object") /\ Get(v, "additionalProperties") # Undefined
isObjectType(v) == Get(v, "type") = Str("object")
isTupleType(v) == Get(v, "type") = Str("array") /\ IsArray(Get(v, "items"))
isOptional(v) == HasSym(v, "OPTIONAL")
isReadonly(v) == HasSym(v, "READONLY")

(***************************************************************************)
(* Numbers, strings and patterns                                           *)
(***************************************************************************)
Abs(n) == IF n < 0 THEN -n ELSE n

\* a % b on numbers: the remainder has the sign of the dividend, and is NaN
\* for a zero divisor or a NaN operand
JsRem(a, b) ==
  IF IsNaN(a) \/ IsNaN(b) THEN NaN
  ELSE IF b.n = 0 THEN NaN
  ELSE IF a.n < 0 THEN Num(-(Abs(a.n) % Abs(b.n)))
  ELSE Num(a.n % Abs(b.n))

\* a >= b taken for a > b
NumGeStrict(a, b) == ~IsNaN(a) /\ ~IsNaN(b) /\ a.n > b.n

\* a !== b, a > b, a >= b, a < b, a <= b on numbers: NaN compares false
NumNe(a, b) == IsNaN(a) \/ IsNaN(b) \/ a.n # b.n
NumGt(a, b) == ~IsNaN(a) /\ ~IsNaN(b) /\ a.n > b.n
NumGe(a, b) == ~IsNaN(a) /\ ~IsNaN(b) /\ a.n >= b.n
NumLt(a, b) == ~IsNaN(a) /\ ~IsNaN(b) /\ a.n < b.n
NumLe(a, b) == ~IsNaN(a) /\ ~IsNaN(b) /\ a.n <= b.n

\* `${n}` for a number n
NumToString(v) == IF IsNaN(v) THEN "NaN" ELSE ToString(v.n)

\* The pattern sources of the model: "^a" (the string starts with a), "b$"
\* (the string ends with b) and "(" (no regular expression: new RegExp
\* throws a SyntaxError)
Patterns == {"^a", "b$", "("}
Strings == {"", "a", "ab"}

\* whether new RegExp(pattern) returns
RegExpCompiles(pattern) == pattern # "("

\* new RegExp(pattern).test(s)
RegExpTest(pattern, s) ==
  CASE pattern = "^a" -> s \in {"a", "ab"}
    [] pattern = "b$" -> s \in {"ab"}
    [] OTHER -> FALSE

RECURSIVE inspect(_)
\* util.inspect(value), for values nested no deeper than its default depth
inspect(v) ==
  CASE v.k = "undefined" -> "undefined"
    [] v.k = "null" -> "null"
    [] v.k = "boolean" -> IF v.b THEN "true" ELSE "false"
    [] v.k = "number" -> NumToString(v)
    [] v.k = "bigint" -> ToString(v.n) \o "n"
    [] v.k = "string" -> "'" \o v.s \o "'"
    [] v.k = "array" ->
         IF Len(v.items) = 0 THEN "[]"
         ELSE "[ " \o Join([i \in 1..Len(v.items) |-> inspect(v.items[i])], ", ") \o " ]"
    [] v.k = "object" ->
         IF Len(v.keys) = 0 THEN "{}"
         ELSE "{ " \o Join([i \in 1..Len(v.keys) |->
                              v.keys[i] \o ": " \o inspect(v.vals[i])], ", ") \o " }"

(***************************************************************************)
(* Validation issues                                                       *)
(***************************************************************************)
Issue(type, message, path) == [type |-> type, message |-> message, path |-> path]

invalidTypeIssue(expected, v, path) ==
  Issue("INVALID_TYPE",
        "Invalid type, expected " \o expected \o ", got " \o inspect(v), path)

\* issues.push(issue) under a condition
PushIf(cond, issue) == IF cond THEN <<issue>> ELSE <<>>

\* the number branch of validateWithPath
numberIssues(path, s, v) ==
  IF TypeOf(v) # "number" THEN Return(<<invalidTypeIssue("number", v, path)>>)
  ELSE LET multipleOf == Get(s, "multipleOf")
           maximum == Get(s, "maximum")
           exclusiveMaximum == Get(s, "exclusiveMaximum")
           minimum == Get(s, "minimum")
           exclusiveMinimum == Get(s, "exclusiveMinimum")
       IN Return(
            PushIf(multipleOf # Undefined /\ NumNe(JsRem(v, multipleOf), Num(0)),
                   Issue("INVALID_VALUE",
                         "Value must be a multiple of " \o NumToString(multipleOf),
                         path))
            \o PushIf(maximum # Undefined /\ NumGt(v, maximum),
                   Issue("INVALID_VALUE",
                         "Value must be less than or equal to " \o NumToString(maximum)
                           \o ", instead was " \o NumToString(v),
                         path))
            \o PushIf(exclusiveMaximum # Undefined /\ NumGe(v, exclusiveMaximum),
                   Issue("INVALID_VALUE",
                         "Value must be strictly less than "
                           \o NumToString(exclusiveMaximum)
                           \o ", instead was " \o NumToString(v),
                         path))
            \o PushIf(minimum # Undefined /\ NumLt(v, minimum),
                   Issue("INVALID_VALUE",
                         "Value must be greater than or equal to " \o NumToString(minimum)
                           \o ", instead was " \o NumToString(v),
                         path))
            \o PushIf(exclusiveMinimum # Undefined /\ NumLe(v, exclusiveMinimum),
                   Issue("INVALID_VALUE",
                         "Value must be strictly greater than "
                           \o NumToString(exclusiveMinimum)
                           \o ", instead was " \o NumToString(v),
                         path)))

\* the string branch of validateWithPath
stringIssues(path, s, v) ==
  IF TypeOf(v) # "string" THEN Return(<<invalidTypeIssue("string", v, path)>>)
  ELSE LET length == Len(v.s)
           maxLength == Get(s, "maxLength")
           minLength == Get(s, "minLength")
           pattern == Get(s, "pattern")
       IN IF pattern # Undefined /\ ~RegExpCompiles(pattern.s)
          THEN Throw("SyntaxError", "Invalid regular expression: /" \o pattern.s \o "/")
          ELSE Return(
            PushIf(maxLength # Undefined /\ length > maxLength.n,
                   Issue("INVALID_VALUE",
                         "String value must have a length no greater than "
                           \o NumToString(maxLength)
                           \o ", instead was " \o ToString(length),
                         path))
            \o PushIf(minLength # Undefined /\ length < minLength.n,
                   Issue("INVALID_VALUE",
                         "String value must have a length no less than "
                           \o NumToString(minLength)
                           \o ", instead was " \o ToString(length),
                         path))
            \o PushIf(pattern # Undefined /\ ~RegExpTest(pattern.s, v.s),
                   Issue("INVALID_VALUE",
                         "String value must match pattern: " \o pattern.s,
                         path)))

\* an absent required field taken for "every property is required"
requiredKeysOfAbsentIsAll(s) ==
  LET required == Get(s, "required")
  IN CASE required \in {Undefined, Null} ->
            [kind |-> "return", keys |-> Get(s, "properties").keys]
       [] required.k = "array" ->
            [kind |-> "return",
             keys |-> [i \in 1..Len(required.items) |-> required.items[i].s]]
       [] OTHER -> Throw("TypeError", "object is not iterable")

\* [...new Set(schema.required ?? [])]: the elements of the stored array, or
\* none when the field is absent; a number, boolean or object is not iterable
requiredKeysOf(s) ==
  LET required == Get(s, "required")
  IN CASE required \in {Undefined, Null} -> [kind |-> "return", keys |-> <<>>]
       [] required.k = "array" ->
            [kind |-> "return",
             keys |-> [i \in 1..Len(required.items) |-> required.items[i].s]]
       [] OTHER -> Throw("TypeError", "object is not iterable")

RECURSIVE validateWithPath(_, _, _)
validateWithPath(path, s, v) ==
  IF ~isSchemaType(s) THEN Return(<<Issue("INVALID_SCHEMA", "Invalid schema", path)>>)
  ELSE IF isBooleanType(s)
    THEN IF TypeOf(v) = "boolean" THEN Return(<<>>)
         ELSE Return(<<invalidTypeIssue("boolean", v, path)>>)
  ELSE IF isNullType(s)
    THEN IF TypeOf(v) = "object" /\ v = Null THEN Return(<<>>)
         ELSE Return(<<invalidTypeIssue("null", v, path)>>)
  ELSE IF isNumberType(s) THEN numberIssues(path, s, v)
  ELSE IF isStringType(s) THEN stringIssues(path, s, v)
  ELSE IF isUndefinedType(s)
    THEN IF TypeOf(v) = "undefined" THEN Return(<<>>)
         ELSE Return(<<invalidTypeIssue("undefined", v, path)>>)
  ELSE IF isArrayType(s)
    THEN IF ~IsArray(v) THEN Return(<<invalidTypeIssue("array", v, path)>>)
         ELSE FlatMap([idx \in 1..Len(v.items) |->
                validateWithPath(path \o "/" \o ToString(idx - 1),
                                 Get(s, "items"), v.items[idx])])
  ELSE IF isTupleType(s)
    THEN IF ~IsArray(v) THEN Return(<<invalidTypeIssue("tuple", v, path)>>)
         ELSE LET items == Get(s, "items").items
              IN IF Len(v.items) # Len(items)
                 THEN Return(<<Issue("INVALID_TYPE",
                                "Expected " \o ToString(Len(items)) \o " elements, got "
                                  \o ToString(Len(v.items)) \o " elements instead",
                                path)>>)
                 ELSE FlatMap([idx \in 1..Len(v.items) |->
                        validateWithPath(path \o "/" \o ToString(idx - 1),
                                         items[idx], v.items[idx])])
  ELSE IF isObjectType(s)
    THEN IF TypeOf(v) # "object" \/ IsArray(v) \/ v = Null
         THEN Return(<<invalidTypeIssue("object", v, path)>>)
         ELSE LET valueKeys == keysOf(v).keys
                  properties == Get(s, "properties")
                  expected == keysOf(properties)
                  required == requiredKeysOf(s)
              IN IF expected.kind = "throw" THEN expected
                 ELSE IF required.kind = "throw" THEN required
                 ELSE LET expectedKeys == expected.keys
                          requiredKeys == required.keys
                          extraKeys ==
                            Filter(valueKeys, Range(valueKeys) \ Range(expectedKeys))
                          missingRequiredKeys ==
                            Filter(requiredKeys, Range(requiredKeys) \ Range(valueKeys))
                          children ==
                            FlatMap([i \in 1..Len(valueKeys) |->
                              IF valueKeys[i] \in Range(expectedKeys)
                              THEN validateWithPath(path \o "/" \o valueKeys[i],
                                                    Get(properties, valueKeys[i]),
                                                    Get(v, valueKeys[i]))
                              ELSE Return(<<>>)])
                      IN IF children.kind = "throw" THEN children
                         ELSE Return(
                           PushIf(Len(extraKeys) > 0,
                                  Issue("INVALID_TYPE",
                                        "Unexpected keys: " \o Join(extraKeys, ", "),
                                        path))
                           \o PushIf(Len(missingRequiredKeys) > 0,
                                  Issue("INVALID_TYPE",
                                        "Missing required keys: "
                                          \o Join(missingRequiredKeys, ", "),
                                        path))
                           \o children.issues)
  ELSE Return(<<Issue("INVALID_SCHEMA", "Unable to validate type", path)>>)

formatIssues(issues) ==
  Join([i \in 1..Len(issues) |->
         issues[i].message \o " (at " \o issues[i].path \o ")"], "\n")

\* a validate that starts at the path "/"
validateFromSlash(s, v) == validateWithPath("/", s, v)

validate(s, v) == validateWithPath("", s, v)

\* validateOrThrow returns nothing (undefined) unless it throws
validateOrThrow(s, v) ==
  LET issues == validate(s, v)
  IN IF issues.kind = "throw" THEN issues
     ELSE IF Len(issues.issues) > 0
     THEN Throw("TypeError", formatIssues(issues.issues))
     ELSE [kind |-> "return", value |-> Undefined]

is(s, v) ==
  LET issues == validate(s, v)
  IN IF issues.kind = "throw" THEN issues
     ELSE [kind |-> "return", value |-> Bool(Len(issues.issues) = 0)]

(***************************************************************************)
(* Bounds and inputs                                                       *)
(***************************************************************************)
MaxNum == 2      \* numbers and thresholds range up to MaxNum
MaxLen == 2      \* validated arrays have at most MaxLen elements
MaxItems == 2    \* tuples are built of at most MaxItems items

\* the sequences over S of length at most n
SeqsUpTo(S, n) == UNION {[1..m -> S] : m \in 0..n}

NoOptions == Obj(<<>>, <<>>)

\* number options of the general specification
NumberOptions ==
  {NoOptions,
   Obj(<<"minimum", "maximum">>, <<Num(0), Num(1)>>),
   Obj(<<"multipleOf">>, <<Num(2)>>)}

\* every combination of the five constraints, each absent or a threshold
ConstraintNames ==
  <<"multipleOf", "maximum", "exclusiveMaximum", "minimum", "exclusiveMinimum">>
AllNumberOptions ==
  {Obj(Filter(ConstraintNames, DOMAIN f),
       LET present == Filter(ConstraintNames, DOMAIN f)
       IN [i \in 1..Len(present) |-> Num(f[present[i]])]) :
     f \in UNION {[D -> 0..MaxNum] : D \in SUBSET Range(ConstraintNames)}}

StringOptions ==
  {NoOptions,
   Obj(<<"minLength", "maxLength">>, <<Num(1), Num(1)>>)}
  \cup {Obj(<<"pattern">>, <<Str(p)>>) : p \in Patterns}

\* values a caller may pass as a schema without using a builder
UnknownTag == Obj(<<"type">>, <<Str("unknown")>>)
LiteralSchemas ==
  {Null, Num(1), Arr(<<>>), UnknownTag,
   Obj(<<"type">>, <<Num(1)>>),
   Obj(<<"type">>, <<Str("object")>>),
   Obj(<<"type">>, <<Str("array")>>)}

\* child schemas of arrays and records, tuple items and property schemas
TupleParts ==
  {T_number(NoOptions), T_string(NoOptions), T_any, T_record(T_number(NoOptions))}
PropParts ==
  {T_number(NoOptions),
   T_optional(T_string(NoOptions)),
   T_readonly(T_optional(T_string(NoOptions))),
   T_optional(T_readonly(T_boolean)),
   T_record(T_number(NoOptions)),
   UnknownTag}
Parts ==
  TupleParts \cup PropParts
    \cup {T_tuple(<<T_number(NoOptions), T_string(NoOptions)>>),
          T_array(T_any),
          T_object(Obj(<<"a">>, <<T_string(NoOptions)>>))}

\* the property maps of object(): keys in either insertion order
PropKeyLists == {<<>>, <<"a">>, <<"a", "b">>, <<"b", "a">>}
PropertyMaps ==
  UNION {{Obj(keys, vals) : vals \in [1..Len(keys) -> PropParts]} :
           keys \in PropKeyLists}

\* validated values
Scalars ==
  {Undefined, Null, Bool(TRUE), NaN, BigInt(1)}
    \cup {Num(n) : n \in -1..MaxNum} \cup {Str(s) : s \in Strings}
Elems == {Num(1), Str("a"), Obj(<<"a">>, <<Num(1)>>)}
Arrays == {Arr(items) : items \in SeqsUpTo(Elems, MaxLen)}
ValueKeyLists ==
  {<<>>, <<"a">>, <<"c">>, <<"a", "b">>, <<"b", "a">>, <<"a", "c">>, <<"c", "b">>}
Objects ==
  UNION {{Obj(keys, vals) : vals \in [1..Len(keys) -> {Num(1), Str("a")}]} :
           keys \in ValueKeyLists}
    \cup {Obj(<<"a">>, <<Obj(<<"a">>, <<Num(1)>>)>>),
          Obj(<<"a", "c">>, <<Num(1), Bool(TRUE)>>),
          Obj(<<"c">>, <<Bool(TRUE)>>)}
Values == Scalars \cup Arrays \cup Objects

\* the values of the number specification
NumberValues ==
  {Num(n) : n \in -1..(MaxNum + 1)} \cup {NaN, BigInt(1), Str("a"), Null, Arr(<<Num(1)>>)}

(***************************************************************************)
(* The caller: builds a schema, passes it through modifiers, validates.     *)
(* The calls are pure and share no state, so a behaviour is one use of the *)
(* library: it ends with its validation call.                              *)
(***************************************************************************)
\* no validation call was made yet
Building == result = NoResult

Init ==
  /\ schema = Undefined
  /\ builder = "none"
  /\ applied = {}
  /\ value = Undefined
  /\ result = NoResult
  /\ op = "init"

\* the caller now holds the schema s made by builder b
Built(b, s) ==
  /\ Building
  /\ schema' = s
  /\ builder' = b
  /\ applied' = {}
  /\ value' = Undefined
  /\ result' = NoResult
  /\ op' = "build"

NewAny == Built("any", T_any)
NewBoolean == Built("boolean", T_boolean)
NewNull == Built("null", T_null)
NewNumber(Options) == \E options \in Options : Built("number", T_number(options))
NewString == \E options \in StringOptions : Built("string", T_string(options))
NewUndefined == Built("undefined", T_undefined)
NewArray == \E items \in Parts : Built("array", T_array(items))
NewRecord == \E items \in Parts : Built("record", T_record(items))
NewObject == \E properties \in PropertyMaps : Built("object", T_object(properties))
NewTuple == \E items \in SeqsUpTo(TupleParts, MaxItems) : Built("tuple", T_tuple(items))
Literal == \E s \in LiteralSchemas : Built("literal", s)

Optional ==
  /\ Building
  /\ schema' = T_optional(schema)
  /\ applied' = applied \cup {"optional"}
  /\ value' = Undefined
  /\ result' = NoResult
  /\ op' = "optional"
  /\ UNCHANGED builder

Readonly ==
  /\ Building
  /\ schema' = T_readonly(schema)
  /\ applied' = applied \cup {"readonly"}
  /\ value' = Undefined
  /\ result' = NoResult
  /\ op' = "readonly"
  /\ UNCHANGED builder

Validate(Inputs) ==
  \E v \in Inputs :
    /\ Building
    /\ value' = v
    /\ result' = validate(schema, v)
    /\ op' = "validate"
    /\ UNCHANGED <<schema, builder, applied>>

ValidateOrThrow ==
  \E v \in Values :
    /\ Building
    /\ value' = v
    /\ result' = validateOrThrow(schema, v)
    /\ op' = "validateOrThrow"
    /\ UNCHANGED <<schema, builder, applied>>

Is ==
  \E v \in Values :
    /\ Building
    /\ value' = v
    /\ result' = is(schema, v)
    /\ op' = "is"
    /\ UNCHANGED <<schema, builder, applied>>

Next ==
  \/ NewAny
  \/ NewBoolean
  \/ NewNull
  \/ NewNumber(NumberOptions)
  \/ NewString
  \/ NewUndefined
  \/ NewArray
  \/ NewRecord
  \/ NewObject
  \/ NewTuple
  \/ Literal
  \/ Optional
  \/ Readonly
  \/ Validate(Values)
  \/ ValidateOrThrow
  \/ Is

Spec == Init /\ [][Next]_vars

\* the number schema under every combination of constraints
NextNumber ==
  \/ NewNumber(AllNumberOptions)
  \/ Validate(NumberValues)

SpecNumber == Init /\ [][NextNumber]_vars

(***************************************************************************)
(* Claims                                                                  *)
(***************************************************************************)
\* a value that is an object, is not null and is not a sequence
IsPlainObject(v) == v.k = "object"

\* the issues of the outcomes, when every one of them returned
IssuesOf(outcomes) == Flatten([i \in 1..Len(outcomes) |-> outcomes[i].issues])
AllReturn(outcomes) == \A i \in 1..Len(outcomes) : outcomes[i].kind = "return"

\* the first of the outcomes that raised
RECURSIVE FirstRaise(_)
FirstRaise(outcomes) ==
  IF Head(outcomes).kind = "throw" THEN Head(outcomes)
  ELSE FirstRaise(Tail(outcomes))

\* "the issues first, then the issues of each validation in order", as a
\* computation: a validation that raises ends it with its error
InOrder(first, outcomes) ==
  IF AllReturn(outcomes) THEN Return(first \o IssuesOf(outcomes))
  ELSE FirstRaise(outcomes)

\* C1: for every schema (builder-made, malformed or untagged) and every
\* value, validate returns a sequence of issues and never raises.
C1_ValidateNeverRaises ==
  op = "validate" => result.kind = "return" /\ result.issues \in Seq(
    [type : {"INVALID_SCHEMA", "INVALID_TYPE", "INVALID_VALUE"},
     message : STRING, path : STRING])

\* what C2 says validate does for a record(item) schema and a value v
RecordClaim(item, v) ==
  IF IsPlainObject(v)
  THEN InOrder(<<>>, [i \in 1..Len(v.keys) |->
         validateWithPath("/" \o v.keys[i], item, v.vals[i])])
  ELSE Return(<<[type |-> "INVALID_TYPE", path |-> "",
                 message |-> "Invalid type, expected object, got " \o inspect(v)]>>)

\* C2: for a record(item) schema, validate returns the issues of every own
\* key's value against item at path "/" + key, in key order, and nothing
\* about unexpected or missing keys; a value that is no plain object yields
\* one INVALID_TYPE issue naming "object".
C2_RecordValidatesEveryKey ==
  op = "validate" /\ builder = "record" =>
    result = RecordClaim(Get(schema, "additionalProperties"), value)

\* C3: after any sequence of optional/readonly applications, isOptional is
\* true iff optional was applied at least once and isReadonly is true iff
\* readonly was applied at least once, whatever the order.
C3_ModifiersCompose ==
  builder \notin {"none", "literal"} =>
    /\ isOptional(schema) <=> "optional" \in applied
    /\ isReadonly(schema) <=> "readonly" \in applied

\* the variant predicates that hold of a schema
VariantsOf(s) ==
  {name \in {"boolean", "null", "number", "string", "undefined",
             "array", "tuple", "record", "object"} :
     CASE name = "boolean" -> isBooleanType(s)
       [] name = "null" -> isNullType(s)
       [] name = "number" -> isNumberType(s)
       [] name = "string" -> isStringType(s)
       [] name = "undefined" -> isUndefinedType(s)
       [] name = "array" -> isArrayType(s)
       [] name = "tuple" -> isTupleType(s)
       [] name = "record" -> isRecordType(s)
       [] name = "object" -> isObjectType(s)}

Builders ==
  {"boolean", "null", "number", "string", "undefined",
   "array", "tuple", "record", "object"}

\* C4: exactly one of the nine variant predicates holds of a schema made by
\* a builder (and passed through optional/readonly or not): the one of its
\* builder.
C4_ExactlyOneVariant ==
  builder \in Builders => VariantsOf(schema) = {builder}

\* the paths the claims about a path P are checked at
ClaimPaths == {"", "/0", "/a/b"}

\* the elements of seq that are in S, in the order of seq
RECURSIVE Select(_, _)
Select(seq, S) ==
  IF seq = <<>> THEN <<>>
  ELSE (IF seq[1] \in S THEN <<seq[1]>> ELSE <<>>) \o Select(Tail(seq), S)

\* what C5 says validateWithPath(P, s, v) does for an object(props) schema s
\* and a plain object v
ObjectClaim(P, s, v) ==
  LET props == Get(s, "properties")
      stored == IF HasKey(s, "required")
                THEN {Get(s, "required").items[i].s :
                        i \in 1..Len(Get(s, "required").items)}
                ELSE {}
      unexpected == Select(v.keys, Range(v.keys) \ Range(props.keys))
      missing == Select(Get(s, "required").items,
                        {Str(key) : key \in stored \ Range(v.keys)})
      known == Select(v.keys, Range(props.keys))
  IN InOrder(
       (IF unexpected # <<>>
        THEN <<[type |-> "INVALID_TYPE", path |-> P,
                message |-> "Unexpected keys: " \o Join(unexpected, ", ")]>>
        ELSE <<>>)
       \o (IF stored \ Range(v.keys) # {}
           THEN <<[type |-> "INVALID_TYPE", path |-> P,
                   message |-> "Missing required keys: "
                     \o Join([i \in 1..Len(missing) |-> missing[i].s], ", ")]>>
           ELSE <<>>),
       [i \in 1..Len(known) |->
          validateWithPath(P \o "/" \o known[i], Get(props, known[i]),
                           Get(v, known[i]))])

ExampleObject ==
  T_object(Obj(<<"a", "b">>, <<T_number(NoOptions), T_optional(T_string(NoOptions))>>))

\* C5: for an object(props) schema and a plain object at path P, validation
\* returns, in this order, one "Unexpected keys" issue iff a key of the value
\* is not in props, one "Missing required keys" issue iff a stored required
\* key is absent, then the issues of every key of the value that is in props
\* at P + "/" + key, in the value's key order.
C5_ObjectValidation ==
  op = "validate" /\ builder = "object" /\ IsPlainObject(value) =>
    /\ result = ObjectClaim("", schema, value)
    /\ \A P \in ClaimPaths :
         validateWithPath(P, schema, value) = ObjectClaim(P, schema, value)
    /\ schema = ExampleObject =>
         /\ value = Obj(<<"a">>, <<Num(1)>>) => result = Return(<<>>)
         /\ value = Obj(<<"a", "c">>, <<Num(1), Bool(TRUE)>>) =>
              Len(result.issues) = 1
         /\ value = Obj(<<"c">>, <<Bool(TRUE)>>) => Len(result.issues) = 2

C5_Witness ==
  /\ op = "validate"
  /\ schema = ExampleObject
  /\ value = Obj(<<"c">>, <<Bool(TRUE)>>)
  /\ result = Return(<<Issue("INVALID_TYPE", "Unexpected keys: c", ""),
                       Issue("INVALID_TYPE", "Missing required keys: a", "")>>)

\* what C6 says validateWithPath(P, s, v) does for a tuple of items
TupleClaim(P, items, v) ==
  IF v.k # "array"
  THEN Return(<<[type |-> "INVALID_TYPE", path |-> P,
                 message |-> "Invalid type, expected tuple, got " \o inspect(v)]>>)
  ELSE IF Len(v.items) # Len(items)
  THEN Return(<<[type |-> "INVALID_TYPE", path |-> P,
                 message |-> "Expected " \o ToString(Len(items)) \o " elements, got "
                               \o ToString(Len(v.items)) \o " elements instead"]>>)
  ELSE InOrder(<<>>, [i \in 1..Len(items) |->
         validateWithPath(P \o "/" \o ToString(i - 1), items[i], v.items[i])])

NotMultiple(n, m) == m = 0 \/ ~\E q \in -Abs(n)..Abs(n) : n = q * m

\* the present constraints of a number schema s that the number v violates
Violated(s, v) ==
  {c \in Range(ConstraintNames) :
     /\ HasKey(s, c)
     /\ CASE c = "multipleOf" -> IsNaN(v) \/ NotMultiple(v.n, Get(s, c).n)
          [] c = "maximum" -> ~IsNaN(v) /\ v.n > Get(s, c).n
          [] c = "exclusiveMaximum" -> ~IsNaN(v) /\ v.n >= Get(s, c).n
          [] c = "minimum" -> ~IsNaN(v) /\ v.n < Get(s, c).n
          [] c = "exclusiveMinimum" -> ~IsNaN(v) /\ v.n <= Get(s, c).n}

\* the words an issue of constraint c starts with
ConstraintWords(c) ==
  CASE c = "multipleOf" -> "Value must be a multiple of "
    [] c = "maximum" -> "Value must be less than or equal to "
    [] c = "exclusiveMaximum" -> "Value must be strictly less than "
    [] c = "minimum" -> "Value must be greater than or equal to "
    [] c = "exclusiveMinimum" -> "Value must be strictly greater than "

\* the message of constraint c with threshold t for the number v
ConstraintMessage(c, t, v) ==
  ConstraintWords(c) \o ToString(t)
    \o (IF c = "multipleOf" THEN ""
        ELSE ", instead was " \o (IF IsNaN(v) THEN "NaN" ELSE ToString(v.n)))

\* C7: for a number schema, a non-number yields exactly one INVALID_TYPE
\* issue; a number yields exactly one INVALID_VALUE issue at the current path
\* for each present constraint it violates, and nothing else, so none at all
\* without constraints.
C7_NumberConstraints ==
  op = "validate" /\ builder = "number" =>
    IF value.k # "number"
    THEN result = Return(<<[type |-> "INVALID_TYPE", path |-> "",
                            message |-> "Invalid type, expected number, got "
                                          \o inspect(value)]>>)
    ELSE /\ result.kind = "return"
         /\ Len(result.issues) = Cardinality(Violated(schema, value))
         /\ \A i \in 1..Len(result.issues) :
              result.issues[i].type = "INVALID_VALUE" /\ result.issues[i].path = ""
         /\ \A c \in Violated(schema, value) :
              \E i \in 1..Len(result.issues) :
                result.issues[i].message =
                  ConstraintMessage(c, Get(schema, c).n, value)
         /\ schema = T_number(NoOptions) => result = Return(<<>>)

C7_Witness ==
  /\ op = "validate"
  /\ schema = T_number(Obj(<<"multipleOf", "maximum", "exclusiveMaximum">>,
                           <<Num(2), Num(0), Num(1)>>))
  /\ value = Num(1)
  /\ Len(result.issues) = 3

\* formatIssues as C8 states it
RECURSIVE FormatClaim(_)
FormatClaim(issues) ==
  IF issues = <<>> THEN ""
  ELSE issues[1].message \o " (at " \o issues[1].path \o ")"
         \o (IF Len(issues) > 1 THEN "\n" ELSE "") \o FormatClaim(Tail(issues))

\* C8: is(S, V) is true iff validate(S, V) is the empty sequence;
\* validateOrThrow(S, V) raises iff validate(S, V) is non-empty, with the
\* message formatIssues(validate(S, V)), and returns normally otherwise.
C8_BoundaryAgreesWithValidate ==
  LET issues == validate(schema, value)
      empty == issues = Return(<<>>)
      nonEmpty == issues.kind = "return" /\ issues.issues # <<>>
  IN /\ op = "is" =>
          (result = [kind |-> "return", value |-> Bool(TRUE)] <=> empty)
     /\ op = "validateOrThrow" =>
          /\ result.kind = "throw" <=> nonEmpty
          /\ nonEmpty => result = Throw("TypeError", FormatClaim(issues.issues))
          /\ ~nonEmpty => result = [kind |-> "return", value |-> Undefined]

\* the known variant names
KnownTags == {"boolean", "null", "number", "string", "undefined", "array", "object"}

\* a schema node that is no recognizable Schema value: not an object, without
\* a tag, or with a tag that is no known variant name
Unrecognizable(s) ==
  \/ s.k # "object"
  \/ ~HasKey(s, "type")
  \/ Get(s, "type") \notin {Str(tag) : tag \in KnownTags}

\* C9 as stated: validation of an unrecognizable schema node yields exactly
\* one INVALID_SCHEMA issue with message "Invalid schema" at its path.
C9_InvalidSchemaMessage ==
  op = "validate" /\ Unrecognizable(schema) =>
    result = Return(<<[type |-> "INVALID_SCHEMA", message |-> "Invalid schema",
                       path |-> ""]>>)

\* the one issue of an unrecognizable node: a string tag that is no known
\* variant name is reported as "Unable to validate type"
NodeIssue(s, P) ==
  [type |-> "INVALID_SCHEMA", path |-> P,
   message |-> IF s.k = "object" /\ HasKey(s, "type") /\ Get(s, "type").k = "string"
               THEN "Unable to validate type" ELSE "Invalid schema"]

\* the child nodes validation visits below a root of schema s and value v,
\* with the path, the schema and the value of each
ChildNodes(s, v) ==
  CASE Get(s, "type") = Str("array") /\ Get(s, "items").k # "array" /\ IsArray(v) ->
         [i \in 1..Len(v.items) |->
            [path |-> "/" \o ToString(i - 1), s |-> Get(s, "items"), v |-> v.items[i]]]
    [] Get(s, "type") = Str("array") /\ Get(s, "items").k = "array" /\ IsArray(v)
         /\ Len(v.items) = Len(Get(s, "items").items) ->
         [i \in 1..Len(v.items) |->
            [path |-> "/" \o ToString(i - 1), s |-> Get(s, "items").items[i],
             v |-> v.items[i]]]
    [] Get(s, "type") = Str("object") /\ IsPlainObject(v) ->
         LET known == Select(v.keys, Range(Get(s, "properties").keys))
         IN [i \in 1..Len(known) |->
              [path |-> "/" \o known[i], s |-> Get(Get(s, "properties"), known[i]),
               v |-> Get(v, known[i])]]
    [] OTHER -> <<>>

\* the outcome of each child node: the one issue of an unrecognizable node,
\* the validation of any other
NodeOutcomes(s, v) ==
  LET nodes == ChildNodes(s, v)
  IN [i \in 1..Len(nodes) |->
        IF Unrecognizable(nodes[i].s)
        THEN Return(<<NodeIssue(nodes[i].s, nodes[i].path)>>)
        ELSE validateWithPath(nodes[i].path, nodes[i].s, nodes[i].v)]

\* C9 (amended): an unrecognizable schema node yields exactly one
\* INVALID_SCHEMA issue at its path, "Invalid schema" or, for a string tag
\* that is no known variant name, "Unable to validate type"; nothing below
\* it is validated and its siblings still are, in their order.
C9_InvalidSchemaNode ==
  op = "validate" =>
    /\ Unrecognizable(schema) =>
         /\ result = Return(<<NodeIssue(schema, "")>>)
         /\ \A P \in ClaimPaths :
              validateWithPath(P, schema, value) = Return(<<NodeIssue(schema, P)>>)
    /\ result.kind = "return" =>
         /\ AllReturn(NodeOutcomes(schema, value))
         /\ Select(result.issues, {x \in Range(result.issues) : x.path # ""})
              = IssuesOf(NodeOutcomes(schema, value))
    /\ (result.kind = "throw" /\ builder \in {"array", "tuple", "object"}) =>
         /\ ~AllReturn(NodeOutcomes(schema, value))
         /\ result = FirstRaise(NodeOutcomes(schema, value))

C9_Witness ==
  /\ op = "validate"
  /\ schema = T_object(Obj(<<"a", "b">>, <<UnknownTag, T_number(NoOptions)>>))
  /\ value = Obj(<<"a", "b">>, <<Num(1), Str("a")>>)
  /\ result = Return(<<Issue("INVALID_SCHEMA", "Unable to validate type", "/a"),
                       Issue("INVALID_TYPE",
                             "Invalid type, expected number, got 'a'", "/b")>>)

\* C10: object(P).required is exactly the keys of P whose schema does not
\* carry the optional marker, in P's key order; the field is omitted when
\* there is none, and validation then reports no key as missing.
C10_RequiredKeys ==
  builder = "object" =>
    LET P == Get(schema, "properties")
        required == Select(P.keys, {key \in Range(P.keys) : ~isOptional(Get(P, key))})
    IN /\ IF required = <<>> THEN ~HasKey(schema, "required")
          ELSE Get(schema, "required")
                 = Arr([i \in 1..Len(required) |-> Str(required[i])])
       /\ (op = "validate" /\ ~HasKey(schema, "required")
             /\ IsPlainObject(value) /\ result.kind = "return") =>
            \A i \in 1..Len(result.issues) :
              result.issues[i].path = "" =>
                result.issues[i].message =
                  "Unexpected keys: "
                    \o Join(Select(value.keys, Range(value.keys) \ Range(P.keys)), ", ")

C10_Witness ==
  /\ op = "validate"
  /\ schema = T_object(Obj(<<"a", "b">>,
                           <<T_optional(T_string(NoOptions)),
                             T_optional(T_readonly(T_boolean))>>))
  /\ ~HasKey(schema, "required")
  /\ value = Obj(<<"c">>, <<Num(1)>>)
  /\ result = Return(<<Issue("INVALID_TYPE", "Unexpected keys: c", "")>>)

\* what C11 says validateWithPath(P, s, v) does for an array(item) schema
ArrayClaim(P, item, v) ==
  IF v.k # "array"
  THEN Return(<<[type |-> "INVALID_TYPE", path |-> P,
                 message |-> "Invalid type, expected array, got " \o inspect(v)]>>)
  ELSE InOrder(<<>>, [i \in 1..Len(v.items) |->
         validateWithPath(P \o "/" \o ToString(i - 1), item, v.items[i])])

\* the paths of the nodes on the way down from a root of schema s and value
\* v: the root's is empty, a node's is "/" + segment for each index or key
\* from the root to it
RECURSIVE TreePaths(_, _)
TreePaths(s, v) ==
  LET nodes == ChildNodes(s, v)
  IN {""} \cup UNION {{nodes[i].path \o below : below \in TreePaths(nodes[i].s, nodes[i].v)} :
                       i \in 1..Len(nodes)}

====
